---- MODULE Spec2Model ----
(***************************************************************************)
(* Output heads of src/model/modules/head.py: DistogramHead, BondTypeHead  *)
(* and PairwiseHead.  Tensors are modelled as a shape (a sequence of axis  *)
(* sizes) with a function from 0-based index tuples to integers; integers  *)
(* stand for the real-valued entries.                                      *)
(***************************************************************************)
EXTENDS Integers, Sequences, FiniteSets, TLC

(* ------------------------------ bounds -------------------------------- *)
\* largest number of tokens N of an input (..., N, N, w)
MaxTokens == 2
\* largest feature width: configured c_z and trailing width w of an input
MaxWidth == 2
\* largest size of the optional leading batch axis of an input (sizes 1 and MaxBatch)
MaxBatch == 2
\* number of distance bins the heads are constructed with
NumBins == 2
\* number of bond categories the heads are constructed with (len(BOND_TYPE))
NumBondTypes == 2
\* stand-in for the default hidden width of BondTypeHead (128 in the source)
HiddenWidth == 2
\* input entries lie in -MaxVal..MaxVal
MaxVal == 2
\* inputs of one shape are generated from the seeds 1..MaxInputSeed
MaxInputSeed == 2
\* parameters lie in -MaxParam..MaxParam
MaxParam == 1
\* parameter settings of a linear layer are generated from the seeds 1..MaxSeed
MaxSeed == 3

(* ------------------------------ tensors ------------------------------- *)
Front(s) == SubSeq(s, 1, Len(s) - 1)

Last(s) == s[Len(s)]

RECURSIVE Indices(_)
Indices(shape) ==
    IF shape = <<>> THEN {<<>>}
    ELSE {<<i>> \o r : i \in 0..(Head(shape) - 1), r \in Indices(Tail(shape))}

Tensor(shape, data) == [kind |-> "tensor", shape |-> shape, data |-> data]

ShapeError == [kind |-> "error"]

None == [kind |-> "none"]

IsTensor(t) == t.kind = "tensor"

Zeros(shape) == Tensor(shape, [idx \in Indices(shape) |-> 0])

\* position (1-based) of a possibly negative torch axis number in a shape of rank r
AxisPos(d, r) == IF d < 0 THEN r + d + 1 ELSE d + 1

SwapAt(s, p, q) == [k \in 1..Len(s) |-> IF k = p THEN s[q] ELSE IF k = q THEN s[p] ELSE s[k]]

\* torch.Tensor.transpose(dim0, dim1)
Transpose(t, dim0, dim1) ==
    LET r == Len(t.shape)
        p == AxisPos(dim0, r)
        q == AxisPos(dim1, r)
    IN  IF p < 1 \/ q < 1 \/ p > r \/ q > r THEN ShapeError
        ELSE LET sh == SwapAt(t.shape, p, q)
             IN  Tensor(sh, [idx \in Indices(sh) |-> t.data[SwapAt(idx, p, q)]])

\* a shape padded on the left with axes of size 1 up to rank r
PadShape(s, r) == [k \in 1..r |-> IF k <= r - Len(s) THEN 1 ELSE s[k - (r - Len(s))]]

Max(x, y) == IF x >= y THEN x ELSE y

\* torch broadcasting: aligned from the right, axis sizes are equal or one of them is 1
Broadcastable(sa, sb) ==
    LET r == Max(Len(sa), Len(sb))
    IN  \A k \in 1..r :
           \/ PadShape(sa, r)[k] = PadShape(sb, r)[k]
           \/ PadShape(sa, r)[k] = 1
           \/ PadShape(sb, r)[k] = 1

BroadcastShape(sa, sb) ==
    LET r == Max(Len(sa), Len(sb))
    IN  [k \in 1..r |-> IF PadShape(sa, r)[k] = 1 THEN PadShape(sb, r)[k]
                        ELSE PadShape(sa, r)[k]]

\* the index into an operand of shape s that a broadcast index idx reads
Project(idx, s) ==
    [k \in 1..Len(s) |-> IF s[k] = 1 THEN 0 ELSE idx[k + (Len(idx) - Len(s))]]

\* elementwise a + b with broadcasting; shapes that do not broadcast fail
Add(a, b) ==
    IF ~IsTensor(a) \/ ~IsTensor(b) THEN ShapeError
    ELSE IF ~Broadcastable(a.shape, b.shape) THEN ShapeError
    ELSE LET sh == BroadcastShape(a.shape, b.shape)
         IN  Tensor(sh, [idx \in Indices(sh) |->
                            a.data[Project(idx, a.shape)] + b.data[Project(idx, b.shape)]])

\* torch.Tensor.unsqueeze(0): a new leading axis of size 1
Unsqueeze0(t) ==
    LET sh == <<1>> \o t.shape
    IN  Tensor(sh, [idx \in Indices(sh) |-> t.data[Tail(idx)]])

(* --------------------------- linear primitive -------------------------- *)
\* a linear layer: weight[o][c] for o < out_features, c < in_features, and bias[o]
LinearLayer(in_features, out_features, weight, bias) ==
    [in_features |-> in_features, out_features |-> out_features,
     weight |-> weight, bias |-> bias]

\* initializer="zeros": weight and bias start at zero
ZerosInit(in_features, out_features) ==
    LinearLayer(in_features, out_features,
                [o \in 0..(out_features - 1) |-> [c \in 0..(in_features - 1) |-> 0]],
                [o \in 0..(out_features - 1) |-> 0])

\* a non-zero parameter setting of a layer (default initializer, or learned values)
SeededParams(seed, in_features, out_features) ==
    LinearLayer(in_features, out_features,
                [o \in 0..(out_features - 1) |->
                    [c \in 0..(in_features - 1) |->
                        ((seed + 2 * o + c) % (2 * MaxParam + 1)) - MaxParam]],
                [o \in 0..(out_features - 1) |->
                    ((seed + o) % (2 * MaxParam + 1)) - MaxParam])

ParamFamily(in_features, out_features) ==
    {SeededParams(s, in_features, out_features) : s \in 1..MaxSeed}

RECURSIVE Dot(_, _, _)
\* sum over c < n of row[c] * vec[c]
Dot(row, vec, n) ==
    IF n = 0 THEN 0 ELSE Dot(row, vec, n - 1) + row[n - 1] * vec[n - 1]

\* the affine map of a layer on one feature vector x (a function on 0..in_features-1)
Affine(lin, x) ==
    [o \in 0..(lin.out_features - 1) |-> Dot(lin.weight[o], x, lin.in_features) + lin.bias[o]]

\* Linear.forward: the affine map over the trailing feature axis; a trailing
\* width other than in_features is a shape-mismatch failure
LinearApply(lin, t) ==
    IF ~IsTensor(t) THEN ShapeError
    ELSE IF Len(t.shape) = 0 THEN ShapeError
    ELSE IF Last(t.shape) # lin.in_features THEN ShapeError
    ELSE LET sh == Front(t.shape) \o <<lin.out_features>>
         IN  Tensor(sh, [idx \in Indices(sh) |->
                 Affine(lin, [c \in 0..(lin.in_features - 1) |->
                                  t.data[Front(idx) \o <<c>>]])[Last(idx)]])

\* nn.Sequential of two layers
Sequential(layers, t) == LinearApply(layers[2], LinearApply(layers[1], t))

(* ------------------------------- heads -------------------------------- *)
\* an attribute that was never assigned
Unallocated == [kind |-> "unallocated"]

\* default of BondTypeHead's c_z argument
BondTypeDefaultCz == 1

\* DistogramHead.__init__ with the layer left at the default initializer
DistogramHead_init_DefaultInit(c_z, no_bins) ==
    [c_z |-> c_z, no_bins |-> no_bins, linear |-> SeededParams(1, c_z, no_bins)]

\* DistogramHead.__init__
DistogramHead_init(c_z, no_bins) ==
    [c_z |-> c_z, no_bins |-> no_bins, linear |-> ZerosInit(c_z, no_bins)]

\* DistogramHead.forward without the transposed summand
DistogramHead_forward_NoTranspose(self, z) == LinearApply(self.linear, z)

\* DistogramHead.forward transposing the last two axes (token j with the bins)
DistogramHead_forward_WrongAxes(self, z) ==
    LET logits == LinearApply(self.linear, z)
    IN  IF ~IsTensor(logits) THEN logits
        ELSE Add(logits, Transpose(logits, -1, -2))

\* DistogramHead.forward
DistogramHead_forward(self, z) ==
    LET logits == LinearApply(self.linear, z)
    IN  IF ~IsTensor(logits) THEN logits
        ELSE Add(logits, Transpose(logits, -2, -3))

\* BondTypeHead.__init__; seed1 and seed2 stand for the default initializer's draw
BondTypeHead_init(c_z, c_hidden, no_bond_types, seed1, seed2) ==
    [c_in |-> c_z, c_hidden |-> c_hidden, no_bond_types |-> no_bond_types,
     classifier |-> <<SeededParams(seed1, c_z, c_hidden),
                      SeededParams(seed2, c_hidden, no_bond_types)>>]

\* BondTypeHead.forward applying the classifier to z as it is
BondTypeHead_forward_NoUnsqueeze(self, z) == Sequential(self.classifier, z)

\* BondTypeHead.forward adding the leading axis only to an input without batch axis
BondTypeHead_forward_CondUnsqueeze(self, z) ==
    Sequential(self.classifier, IF Len(z.shape) = 3 THEN Unsqueeze0(z) ELSE z)

\* BondTypeHead.forward
BondTypeHead_forward(self, z) == Sequential(self.classifier, Unsqueeze0(z))

\* PairwiseHead.__init__ allocating the bond-type head whatever the toggle
PairwiseHead_init_AlwaysAllocate(c_z, no_bond_types, no_bins, bond_reconstruction, seed1, seed2) ==
    [distogram_head |-> DistogramHead_init(c_z, no_bins),
     bond_reconstruction |-> bond_reconstruction,
     bond_type_head |-> BondTypeHead_init(c_z, HiddenWidth, no_bond_types, seed1, seed2)]

\* PairwiseHead.__init__ not handing c_z on to the bond-type head
PairwiseHead_init_DefaultCz(c_z, no_bond_types, no_bins, bond_reconstruction, seed1, seed2) ==
    [distogram_head |-> DistogramHead_init(c_z, no_bins),
     bond_reconstruction |-> bond_reconstruction,
     bond_type_head |-> IF bond_reconstruction
                        THEN BondTypeHead_init(BondTypeDefaultCz, HiddenWidth, no_bond_types,
                                               seed1, seed2)
                        ELSE Unallocated]

\* PairwiseHead.__init__
PairwiseHead_init(c_z, no_bond_types, no_bins, bond_reconstruction, seed1, seed2) ==
    [distogram_head |-> DistogramHead_init(c_z, no_bins),
     bond_reconstruction |-> bond_reconstruction,
     bond_type_head |-> IF bond_reconstruction
                        THEN BondTypeHead_init(c_z, HiddenWidth, no_bond_types, seed1, seed2)
                        ELSE Unallocated]

\* what a call hands back: a value, or a failure and no value
Returned(value) == [status |-> "ok", value |-> value]

Raised(what) == [status |-> what, value |-> None]

PairwiseOutput(distogram, token_bond_type_logits) ==
    [kind |-> "PairwiseOutput", distogram |-> distogram,
     token_bond_type_logits |-> token_bond_type_logits]

\* PairwiseHead.forward filling the bond-type field with zeros when the toggle is off
PairwiseHead_forward_ZeroFill(self, z) ==
    LET distogram == DistogramHead_forward(self.distogram_head, z)
    IN  IF ~IsTensor(distogram) THEN Raised("shape_mismatch")
        ELSE IF self.bond_reconstruction
        THEN LET token_bond_type_logits == BondTypeHead_forward(self.bond_type_head, z)
             IN  IF ~IsTensor(token_bond_type_logits) THEN Raised("shape_mismatch")
                 ELSE Returned(PairwiseOutput(distogram, token_bond_type_logits))
        ELSE Returned(PairwiseOutput(distogram, Zeros(<<1>> \o distogram.shape)))

\* PairwiseHead.forward feeding the bond-type head with the distogram
PairwiseHead_forward_Chained(self, z) ==
    LET distogram == DistogramHead_forward(self.distogram_head, z)
    IN  IF ~IsTensor(distogram) THEN Raised("shape_mismatch")
        ELSE IF self.bond_reconstruction
        THEN LET token_bond_type_logits ==
                     BondTypeHead_forward(self.bond_type_head, distogram)
             IN  IF ~IsTensor(token_bond_type_logits) THEN Raised("shape_mismatch")
                 ELSE Returned(PairwiseOutput(distogram, token_bond_type_logits))
        ELSE Returned(PairwiseOutput(distogram, None))

\* PairwiseHead.forward
PairwiseHead_forward(self, z) ==
    LET distogram == DistogramHead_forward(self.distogram_head, z)
    IN  IF ~IsTensor(distogram) THEN Raised("shape_mismatch")
        ELSE IF self.bond_reconstruction
        THEN IF self.bond_type_head = Unallocated THEN Raised("attribute_error")
             ELSE LET token_bond_type_logits == BondTypeHead_forward(self.bond_type_head, z)
                  IN  IF ~IsTensor(token_bond_type_logits) THEN Raised("shape_mismatch")
                      ELSE Returned(PairwiseOutput(distogram, token_bond_type_logits))
        ELSE Returned(PairwiseOutput(distogram, None))

\* a call of a leaf head: its tensor, or the shape-mismatch failure
LeafCall(out) == IF IsTensor(out) THEN Returned(out) ELSE Raised("shape_mismatch")

(* ------------------------------- inputs ------------------------------- *)
Prefixes == {<<>>, <<1>>, <<MaxBatch>>}

Shapes == {p \o <<n, n, w>> : p \in Prefixes, n \in 1..MaxTokens, w \in 1..MaxWidth}

RECURSIVE Weighted(_)
\* a weighted sum of an index tuple that tells every axis from every other
Weighted(idx) == IF idx = <<>> THEN 0 ELSE Len(idx) * Head(idx) + Weighted(Tail(idx))

SeededInput(seed, shape) ==
    Tensor(shape, [idx \in Indices(shape) |->
                      ((seed + Weighted(idx)) % (2 * MaxVal + 1)) - MaxVal])

Inputs == {SeededInput(k, s) : k \in 1..MaxInputSeed, s \in Shapes}

(* ---------------------------- state machine --------------------------- *)
VARIABLES
    self,             \* the PairwiseHead object with its sub-heads
    input_embedding,  \* the caller's pair embedding tensor z
    ret,              \* the last call on input_embedding: which head, and what it handed back
    ctor,             \* the arguments the object was constructed with
    trained           \* whether the parameters were updated since construction

vars == <<self, input_embedding, ret, ctor, trained>>

NoCall == [op |-> "none", status |-> "none", value |-> None]

Call(op, r) == [op |-> op, status |-> r.status, value |-> r.value]

Init ==
    \E c_z \in 1..MaxWidth, flag \in BOOLEAN, s1 \in 1..MaxSeed, s2 \in 1..MaxSeed :
        /\ self = PairwiseHead_init(c_z, NumBondTypes, NumBins, flag, s1, s2)
        /\ ctor = [c_z |-> c_z, no_bond_types |-> NumBondTypes, no_bins |-> NumBins,
                   bond_reconstruction |-> flag]
        /\ input_embedding \in Inputs
        /\ ret = NoCall
        /\ trained = FALSE

\* the caller obtains a new pair embedding from the encoder
Feed ==
    /\ \E t \in Inputs : input_embedding' = t
    /\ ret' = NoCall
    /\ UNCHANGED <<self, ctor, trained>>

\* self.distogram_head(z)
CallDistogram ==
    /\ ret' = Call("DistogramHead",
                   LeafCall(DistogramHead_forward(self.distogram_head, input_embedding)))
    /\ UNCHANGED <<self, input_embedding, ctor, trained>>

\* self.bond_type_head(z), on an object that has the sub-head
CallBondType ==
    /\ self.bond_type_head # Unallocated
    /\ ret' = Call("BondTypeHead",
                   LeafCall(BondTypeHead_forward(self.bond_type_head, input_embedding)))
    /\ UNCHANGED <<self, input_embedding, ctor, trained>>

\* self(input_embedding)
CallPairwise ==
    /\ ret' = Call("PairwiseHead", PairwiseHead_forward(self, input_embedding))
    /\ UNCHANGED <<self, input_embedding, ctor, trained>>

\* the parameters of one linear layer are replaced (an optimizer step, a checkpoint load)
TrainDistogram ==
    /\ \E lin \in ParamFamily(self.distogram_head.c_z, self.distogram_head.no_bins) :
           self' = [self EXCEPT !.distogram_head.linear = lin]
    /\ trained' = TRUE
    /\ ret' = NoCall
    /\ UNCHANGED <<input_embedding, ctor>>

TrainBondType ==
    /\ self.bond_type_head # Unallocated
    /\ \E k \in 1..2 :
         LET old == self.bond_type_head.classifier[k]
         IN  \E lin \in ParamFamily(old.in_features, old.out_features) :
                self' = [self EXCEPT !.bond_type_head.classifier[k] = lin]
    /\ trained' = TRUE
    /\ ret' = NoCall
    /\ UNCHANGED <<input_embedding, ctor>>

Next ==
    \/ Feed
    \/ CallDistogram
    \/ CallBondType
    \/ CallPairwise
    \/ TrainDistogram
    \/ TrainBondType

Spec == Init /\ [][Next]_vars

(* ------------------------------ properties ---------------------------- *)
\* the feature vector of tensor t at the position pre (all axes but the last)
Vec(t, pre) == [c \in 0..(Last(t.shape) - 1) |-> t.data[pre \o <<c>>]]

\* a position (..., i, j) with the two token indices exchanged
SwapTokens(pre) == SwapAt(pre, Len(pre) - 1, Len(pre))

\* an output index (..., i, j, b) with the two token indices exchanged
SwapTokensOf(idx) == SwapAt(idx, Len(idx) - 2, Len(idx) - 1)

DistogramOk == ret.op = "DistogramHead" /\ ret.status = "ok"

BondTypeOk == ret.op = "BondTypeHead" /\ ret.status = "ok"

PairwiseOk == ret.op = "PairwiseHead" /\ ret.status = "ok"

NotSymmetric(t) == \E idx \in Indices(t.shape) : t.data[idx] # t.data[SwapTokensOf(idx)]

NonZero(t) == \E idx \in Indices(t.shape) : t.data[idx] # 0

\* C1: whatever the parameters and the input, the tensor DistogramHead.forward
\* returns is unchanged by exchanging the two token indices of every entry.
DistogramSymmetric ==
    DistogramOk =>
        \A idx \in Indices(ret.value.shape) :
            ret.value.data[idx] = ret.value.data[SwapTokensOf(idx)]

\* C1 witness: a call with learned parameters on an input that is not symmetric,
\* with an output that is not zero
DistogramSymmetricWitness ==
    /\ DistogramOk
    /\ trained
    /\ self.distogram_head.linear # ZerosInit(ctor.c_z, ctor.no_bins)
    /\ NotSymmetric(input_embedding)
    /\ NonZero(ret.value)

\* C2: before any parameter update, DistogramHead.forward returns a tensor of
\* shape (..., N, N, no_bins) whose entries are all 0, whatever the input holds.
ZeroInitZeroOutput ==
    (DistogramOk /\ ~trained) =>
        /\ ret.value.shape = Front(input_embedding.shape) \o <<ctor.no_bins>>
        /\ \A idx \in Indices(ret.value.shape) : ret.value.data[idx] = 0

\* C2 witness: a call right after construction on an input that is not zero
ZeroInitWitness ==
    /\ DistogramOk
    /\ ~trained
    /\ NonZero(input_embedding)
    /\ Len(input_embedding.shape) = 4

\* C3: DistogramHead.forward keeps the batch and token axes and replaces the
\* trailing width by no_bins; BondTypeHead.forward returns one more leading axis
\* of size 1, the axes of the input, and the trailing width no_bond_types.
ShapeContract ==
    /\ DistogramOk =>
          ret.value.shape = Front(input_embedding.shape) \o <<ctor.no_bins>>
    /\ BondTypeOk =>
          ret.value.shape = <<1>> \o Front(input_embedding.shape) \o <<ctor.no_bond_types>>

\* C3 witness: BondTypeHead called on an input (N, N, c_in) without batch axis
ShapeContractWitness ==
    /\ BondTypeOk
    /\ Len(input_embedding.shape) = 3
    /\ input_embedding.shape[1] = MaxTokens

\* C4: a PairwiseHead constructed without bond reconstruction has no bond-type
\* head and every output's bond-type field is None; one constructed with it
\* returns a bond-type tensor of shape (1, ..., N, N, no_bond_types) every time;
\* the distogram field is a tensor in both.
Optionality ==
    /\ ~ctor.bond_reconstruction => self.bond_type_head = Unallocated
    /\ PairwiseOk =>
          /\ ret.value.kind = "PairwiseOutput"
          /\ IsTensor(ret.value.distogram)
          /\ ~ctor.bond_reconstruction => ret.value.token_bond_type_logits = None
          /\ ctor.bond_reconstruction =>
                /\ IsTensor(ret.value.token_bond_type_logits)
                /\ ret.value.token_bond_type_logits.shape =
                       <<1>> \o Front(input_embedding.shape) \o <<ctor.no_bond_types>>

\* C4 witness: a forward call of a head constructed without bond reconstruction,
\* after a parameter update
OptionalityWitness ==
    /\ PairwiseOk
    /\ ~ctor.bond_reconstruction
    /\ trained

\* C5: the toggle keeps its construction-time value, the bond-type head exists
\* exactly when the toggle is on, and forward never reaches for a missing head.
ToggleFixed ==
    /\ self.bond_reconstruction = ctor.bond_reconstruction
    /\ (self.bond_type_head # Unallocated) <=> self.bond_reconstruction
    /\ ret.status # "attribute_error"

\* C5 witness: forward called, after a parameter update, on a head with the toggle off
ToggleFixedWitness ==
    /\ ret.op = "PairwiseHead"
    /\ trained
    /\ ~self.bond_reconstruction
    /\ self.bond_type_head = Unallocated

\* the input width the head called last was configured with
ConfiguredWidth == ctor.c_z

\* C7: a call fails, with the shape mismatch and without any value, exactly when
\* the trailing width of the input differs from the configured width.
OnlyShapeMismatchFails ==
    ret.op # "none" =>
        IF Last(input_embedding.shape) = ConfiguredWidth
        THEN ret.status = "ok" /\ ret.value # None
        ELSE ret.status = "shape_mismatch" /\ ret.value = None

\* C7 witness: PairwiseHead with bond reconstruction fails on a width mismatch
ShapeMismatchWitness ==
    /\ ret.op = "PairwiseHead"
    /\ self.bond_reconstruction
    /\ Last(input_embedding.shape) # ConfiguredWidth
    /\ ret.status = "shape_mismatch"

\* C8: the output of PairwiseHead.forward holds what its two sub-heads return on
\* the caller's tensor itself, and both sub-heads take inputs of width c_z.
FanOut ==
    /\ self.distogram_head.c_z = ctor.c_z
    /\ self.distogram_head.linear.in_features = ctor.c_z
    /\ self.bond_reconstruction =>
          /\ self.bond_type_head.c_in = ctor.c_z
          /\ self.bond_type_head.classifier[1].in_features = ctor.c_z
    /\ PairwiseOk =>
          /\ ret.value.distogram =
                 DistogramHead_forward(self.distogram_head, input_embedding)
          /\ self.bond_reconstruction =>
                 ret.value.token_bond_type_logits =
                     BondTypeHead_forward(self.bond_type_head, input_embedding)

\* C8 witness: both fields computed, with a non-zero distogram
FanOutWitness ==
    /\ PairwiseOk
    /\ self.bond_reconstruction
    /\ NonZero(ret.value.distogram)
    /\ NonZero(ret.value.token_bond_type_logits)
    /\ NotSymmetric(input_embedding)

\* C9: entry (..., i, j, b) of the distogram is L(z[..., i, j, :])[b] +
\* L(z[..., j, i, :])[b] for the head's affine map L, batch index unchanged;
\* on the diagonal this is twice L(z[..., i, i, :])[b].
DistogramEntries ==
    DistogramOk =>
        LET L(x) == Affine(self.distogram_head.linear, x)
        IN  \A idx \in Indices(Front(input_embedding.shape) \o <<ctor.no_bins>>) :
               LET pre == Front(idx)
                   b   == Last(idx)
               IN  /\ ret.value.data[idx] =
                          L(Vec(input_embedding, pre))[b]
                            + L(Vec(input_embedding, SwapTokens(pre)))[b]
                   /\ pre[Len(pre)] = pre[Len(pre) - 1] =>
                          ret.value.data[idx] = 2 * L(Vec(input_embedding, pre))[b]

\* C9 witness: a batched input with as many batch elements as tokens, learned
\* parameters, and an output whose diagonal is not zero
DistogramEntriesWitness ==
    /\ DistogramOk
    /\ trained
    /\ Len(input_embedding.shape) = 4
    /\ input_embedding.shape[1] = input_embedding.shape[2]
    /\ input_embedding.shape[2] > 1
    /\ \E idx \in Indices(ret.value.shape) :
          idx[Len(idx) - 1] = idx[Len(idx) - 2] /\ ret.value.data[idx] # 0

\* the two layers of a classifier collapsed into one affine map
Collapsed(l1, l2, x) ==
    [k \in 0..(l2.out_features - 1) |->
        Dot([c \in 0..(l1.in_features - 1) |->
                Dot(l2.weight[k], [h \in 0..(l1.out_features - 1) |-> l1.weight[h][c]],
                    l1.out_features)],
            x, l1.in_features)
        + Dot(l2.weight[k], l1.bias, l1.out_features) + l2.bias[k]]

\* C10: the output of BondTypeHead.forward has one more leading axis of size 1
\* than its input, batched or not, and entry (0, ..., i, j, k) is
\* L2(L1(z[..., i, j, :]))[k], which is the collapsed affine map of z[..., i, j, :].
BondTypeEntries ==
    BondTypeOk =>
        LET l1 == self.bond_type_head.classifier[1]
            l2 == self.bond_type_head.classifier[2]
            sh == <<1>> \o Front(input_embedding.shape) \o <<l2.out_features>>
        IN  /\ ret.value.shape = sh
            /\ \A idx \in Indices(sh) :
                  LET x == Vec(input_embedding, Tail(Front(idx)))
                  IN  /\ idx[1] = 0
                      /\ ret.value.data[idx] = Affine(l2, Affine(l1, x))[Last(idx)]
                      /\ ret.value.data[idx] = Collapsed(l1, l2, x)[Last(idx)]

\* C10 witness: a batched input, and an output that differs between (i, j) and (j, i)
BondTypeEntriesWitness ==
    /\ BondTypeOk
    /\ Len(input_embedding.shape) = 4
    /\ NotSymmetric(ret.value)

====
